---- MODULE Spec2Model ----
(***************************************************************************)
(* A model of JsonStore (src/src/JsonStore.ts): a file-backed key-value    *)
(* store that keeps a flat JSON object in one file, validated by a schema, *)
(* with a backup-and-reset recovery when the file is unreadable.           *)
(*                                                                         *)
(* JavaScript values are tagged records, objects are sequences of          *)
(* key/value entries in property order, and a file's text is a sequence of *)
(* JSON tokens, so that JSON.stringify and JSON.parse are two different    *)
(* functions whose composition can be checked.  Only flat objects with     *)
(* scalar values are modelled.                                             *)
(***************************************************************************)
EXTENDS Integers, Sequences, FiniteSets, TLC

(***************************************************************************)
(* JavaScript values                                                       *)
(***************************************************************************)
Num0 == [tag |-> "number", val |-> "0"]
Num1 == [tag |-> "number", val |-> "1"]
StrEmpty == [tag |-> "string", val |-> ""]
StrA == [tag |-> "string", val |-> "a"]
BoolFalse == [tag |-> "boolean", val |-> "false"]
BoolTrue == [tag |-> "boolean", val |-> "true"]
Null == [tag |-> "null", val |-> "null"]
Undefined == [tag |-> "undefined", val |-> "undefined"]
Func == [tag |-> "function", val |-> "() => {}"]
Sym == [tag |-> "symbol", val |-> "Symbol(test)"]
BigInt123 == [tag |-> "bigint", val |-> "123"]

\* An object value: val is the sequence of its own entries, in property order.
Obj(entries) == [tag |-> "object", val |-> entries]

\* The typeof operator.
typeof(v) == IF v.tag = "null" THEN "object" ELSE v.tag

\* ToBoolean: the values a condition such as `&& value` treats as false.
Falsy(v) ==
  \/ v.tag \in {"null", "undefined"}
  \/ v.tag \in {"number", "bigint"} /\ v.val = "0"
  \/ v.tag = "string" /\ v.val = ""
  \/ v.tag = "boolean" /\ v.val = "false"

\* A local constant: F applied to the value of v, with v evaluated once.
Let(v, F(_)) == CHOOSE y \in {F(x) : x \in {v}} : TRUE

(***************************************************************************)
(* Objects: ordered own entries [k, v] with unique keys.  Integer-index    *)
(* keys come first in ascending order, then string keys in insertion order.*)
(***************************************************************************)
IndexKeys == <<"0", "1">>

IsIndexKey(k) == \E i \in DOMAIN IndexKeys : IndexKeys[i] = k

IndexOf(k) == CHOOSE i \in DOMAIN IndexKeys : IndexKeys[i] = k

ObjKeys(o) == {o[i].k : i \in DOMAIN o}

\* key in data
HasKey(o, k) == k \in ObjKeys(o)

\* data[key]; undefined when the key is absent
ObjGet(o, k) ==
  IF HasKey(o, k) THEN o[CHOOSE i \in DOMAIN o : o[i].k = k].v ELSE Undefined

\* The number of entries of o that precede a new index key k.
IndexSlot(o, k) ==
  Cardinality({i \in DOMAIN o : IsIndexKey(o[i].k) /\ IndexOf(o[i].k) < IndexOf(k)})

\* data[key] = value
ObjSet(o, k, v) ==
  IF HasKey(o, k)
    THEN [i \in DOMAIN o |-> IF o[i].k = k THEN [k |-> k, v |-> v] ELSE o[i]]
    ELSE IF IsIndexKey(k)
      THEN LET n == IndexSlot(o, k) IN
           SubSeq(o, 1, n) \o <<[k |-> k, v |-> v]>> \o SubSeq(o, n + 1, Len(o))
      ELSE Append(o, [k |-> k, v |-> v])

\* delete data[key]
ObjDelete(o, k) == SelectSeq(o, LAMBDA e : e.k # k)

\* Object.assign(target, source) for an object source
RECURSIVE ObjAssign(_, _)
ObjAssign(target, source) ==
  IF source = <<>> THEN target
  ELSE ObjAssign(ObjSet(target, Head(source).k, Head(source).v), Tail(source))

\* Deep equality of two flat objects (assert.deepStrictEqual): same keys,
\* same values, property order ignored.
DeepEqual(o1, o2) ==
  /\ ObjKeys(o1) = ObjKeys(o2)
  /\ \A k \in ObjKeys(o1) : ObjGet(o1, k) = ObjGet(o2, k)

\* The characters of the key names used here, for Object.entries(string).
Chars(s) == IF s = "a" THEN <<"a">> ELSE <<>>

\* Object.entries(keyOrValues) when keyOrValues is a string: one entry per
\* character, keyed by its index.
StringEntries(s) ==
  [i \in DOMAIN Chars(s) |->
     [k |-> IndexKeys[i], v |-> [tag |-> "string", val |-> Chars(s)[i]]]]

(***************************************************************************)
(* JSON text.  A text is a sequence of tokens; whitespace is a token, so   *)
(* the pretty-printed and the compact text of one value are different      *)
(* texts that parse to the same value.                                     *)
(***************************************************************************)
Tok(t, s) == [tok |-> t, s |-> s]

LBrace == Tok("{", "")
RBrace == Tok("}", "")
Colon == Tok(":", "")
Comma == Tok(",", "")
\* newline followed by the two-space indentation
Indent == Tok("ws", "\n  ")
Space == Tok("ws", " ")
Newline == Tok("ws", "\n")
Junk(s) == Tok("junk", s)

\* The token of a string, number, boolean or null value.
ValueTok(v) ==
  CASE v.tag = "number" -> Tok("number", v.val)
    [] v.tag = "string" -> Tok("string", v.val)
    [] OTHER -> Tok("literal", v.val)

\* The value of a value token.
TokValue(t) ==
  CASE t.tok = "number" -> [tag |-> "number", val |-> t.s]
    [] t.tok = "string" -> [tag |-> "string", val |-> t.s]
    [] t.s = "null" -> Null
    [] OTHER -> [tag |-> "boolean", val |-> t.s]

IsValueTok(t) == t.tok \in {"number", "string", "literal"}

\* JSON.stringify leaves out entries whose value is undefined, a function
\* or a symbol.
Omitted(v) == v.tag \in {"undefined", "function", "symbol"}

\* JSON.stringify throws a TypeError on a bigint.
StringifyThrows(o) == \E i \in DOMAIN o : o[i].v.tag = "bigint"

RECURSIVE PrettyMembers(_)
PrettyMembers(o) ==
  IF o = <<>> THEN <<>>
  ELSE <<Indent, Tok("string", Head(o).k), Colon, Space, ValueTok(Head(o).v)>>
       \o (IF Tail(o) = <<>> THEN <<>> ELSE <<Comma>>)
       \o PrettyMembers(Tail(o))

\* JSON.stringify(data, null, 2) without the commas between the members.
StringifyNoComma(o) ==
  LET kept == SelectSeq(o, LAMBDA e : ~Omitted(e.v)) IN
  IF kept = <<>> THEN <<LBrace, RBrace>>
  ELSE SelectSeq(<<LBrace>> \o PrettyMembers(kept) \o <<Newline, RBrace>>,
                 LAMBDA t : t # Comma)

\* JSON.stringify(data, null, 2)
Stringify(o) ==
  LET kept == SelectSeq(o, LAMBDA e : ~Omitted(e.v)) IN
  IF kept = <<>> THEN <<LBrace, RBrace>>
  ELSE <<LBrace>> \o PrettyMembers(kept) \o <<Newline, RBrace>>

RECURSIVE CompactMembers(_)
CompactMembers(o) ==
  IF o = <<>> THEN <<>>
  ELSE <<Tok("string", Head(o).k), Colon, ValueTok(Head(o).v)>>
       \o (IF Tail(o) = <<>> THEN <<>> ELSE <<Comma>>)
       \o CompactMembers(Tail(o))

\* JSON.stringify(data), the text an outside writer produces
Compact(o) == <<LBrace>> \o CompactMembers(o) \o <<RBrace>>

ParseFail == [ok |-> FALSE, value |-> Undefined]

\* The members of an object text, from token i on; acc is the object so far.
\* expect is "member" (a key must follow) or "more" (a comma or the brace).
RECURSIVE ParseMembers(_, _, _, _)
ParseMembers(ts, i, acc, expect) ==
  IF expect = "more"
    THEN IF i = Len(ts) /\ ts[i] = RBrace THEN [ok |-> TRUE, value |-> Obj(acc)]
         ELSE IF i < Len(ts) /\ ts[i] = Comma THEN ParseMembers(ts, i + 1, acc, "member")
         ELSE ParseFail
    ELSE IF /\ i + 2 <= Len(ts)
            /\ ts[i].tok = "string"
            /\ ts[i + 1] = Colon
            /\ IsValueTok(ts[i + 2])
           THEN ParseMembers(ts, i + 3, ObjSet(acc, ts[i].s, TokValue(ts[i + 2])), "more")
           ELSE ParseFail

\* JSON.parse(json): ok is FALSE where JSON.parse throws a SyntaxError.
JSONparse(text) ==
  LET ts == SelectSeq(text, LAMBDA t : t.tok # "ws") IN
  IF Len(ts) = 1 /\ IsValueTok(ts[1]) THEN [ok |-> TRUE, value |-> TokValue(ts[1])]
  ELSE IF Len(ts) = 2 /\ ts[1] = LBrace /\ ts[2] = RBrace THEN [ok |-> TRUE, value |-> Obj(<<>>)]
  ELSE IF Len(ts) > 2 /\ ts[1] = LBrace THEN ParseMembers(ts, 2, <<>>, "member")
  ELSE ParseFail

(***************************************************************************)
(* The schema: a z.object of typed keys, either loose (unknown keys are    *)
(* kept) or in the default mode (unknown keys are stripped).               *)
(***************************************************************************)
Field(k, t) == [k |-> k, type |-> t]

\* z.object({}).loose(), the constructor's default schema
LooseSchema == [shape |-> <<>>, mode |-> "loose"]

\* z.object({ a: z.number(), b: z.string() })
TypedSchema == [shape |-> <<Field("a", "number"), Field("b", "string")>>, mode |-> "strip"]

ShapeKeys(schema) == {schema.shape[i].k : i \in DOMAIN schema.shape}

\* schema.safeParse(data): success, and the parsed output (the shape's keys in
\* shape order, then for a loose schema the other keys in input order).
safeParse(schema, v) ==
  IF v.tag # "object" THEN [success |-> FALSE, data |-> <<>>]
  ELSE
    Let([i \in DOMAIN schema.shape |->
           [k |-> schema.shape[i].k, v |-> ObjGet(v.val, schema.shape[i].k)]],
        LAMBDA known :
          [success |-> \A i \in DOMAIN schema.shape :
                         typeof(known[i].v) = schema.shape[i].type,
           data |-> ObjAssign(
                      ObjAssign(<<>>, known),
                      IF schema.mode = "loose"
                        THEN SelectSeq(v.val, LAMBDA e : e.k \notin ShapeKeys(schema))
                        ELSE <<>>)])

(***************************************************************************)
(* The file system: every path holds a file or nothing.                    *)
(***************************************************************************)
NoFile == [exists |-> FALSE, text |-> <<>>]

File(text) == [exists |-> TRUE, text |-> text]

\* `${this.path}.bak`
backupPath(path) == path \o ".bak"

\* The file name the constructor resolves, and the paths of its directory.
StorePath == "store.json"

Paths == {StorePath, backupPath(StorePath), "notes.txt"}

(***************************************************************************)
(* The store                                                               *)
(***************************************************************************)
VARIABLES
  store,  \* the instance: its path, schema and defaults fields
  ctor,   \* the options the constructor was given
  fs,     \* the file system
  last    \* the last call: its arguments and how it ended

\* The state of the step-by-step runs: calls whose file-system calls
\* interleave, and a getProjectRoot call.
VARIABLES
  procs,  \* per process: the position of its set call and its local values
  writer, \* the process whose #save wrote the main file last
  walk    \* the getProjectRoot call: its directory tree, argument and result

steps == <<procs, writer, walk>>

vars == <<store, ctor, fs, last, procs, writer, walk>>

invalidTypes == {"undefined", "function", "symbol", "bigint"}

\* validateSerializable(key, value): TRUE where it returns, FALSE where it
\* throws the TypeError.
validateSerializable(value) == ~(value = Null \/ typeof(value) \in invalidTypes)

\* The property names every object inherits, which the `in` operator finds.
InheritedKeys == {"toString"}

\* key in data
In(k, o) == HasKey(o, k) \/ k \in InheritedKeys

\* #save that removes the file before it validates the data.
saveUnlinkFirst(f, st, data) ==
  Let(safeParse(st.schema, Obj(data)),
      LAMBDA parsed :
        IF ~parsed.success THEN [threw |-> "Error", fs |-> [f EXCEPT ![st.path] = NoFile]]
        ELSE IF StringifyThrows(parsed.data)
          THEN [threw |-> "TypeError", fs |-> [f EXCEPT ![st.path] = NoFile]]
        ELSE [threw |-> "", fs |-> [f EXCEPT ![st.path] = File(Stringify(parsed.data))]])

\* #save without the schema validation: the data is written as given.
saveUnvalidated(f, st, data) ==
  IF StringifyThrows(data) THEN [threw |-> "TypeError", fs |-> f]
  ELSE [threw |-> "", fs |-> [f EXCEPT ![st.path] = File(Stringify(data))]]

\* #save(data): validate, stringify, write the whole file.  threw names the
\* error thrown, "" when it returns.
save(f, st, data) ==
  Let(safeParse(st.schema, Obj(data)),
      LAMBDA parsed :
        IF ~parsed.success THEN [threw |-> "Error", fs |-> f]
        ELSE IF StringifyThrows(parsed.data) THEN [threw |-> "TypeError", fs |-> f]
        ELSE [threw |-> "", fs |-> [f EXCEPT ![st.path] = File(Stringify(parsed.data))]])

\* reset that copies an existing file to the backup path before it saves.
resetBacksUp(f, st) ==
  Let(save(IF f[st.path].exists
             THEN [f EXCEPT ![backupPath(st.path)] = File(f[st.path].text)]
             ELSE f,
           st, st.defaults),
      LAMBDA s : [threw |-> s.threw, fs |-> s.fs, data |-> st.defaults, alias |-> TRUE])

\* reset(): save the defaults and return them.  alias says that the object
\* returned is this.defaults itself.
reset(f, st) ==
  Let(save(f, st, st.defaults),
      LAMBDA s : [threw |-> s.threw, fs |-> s.fs, data |-> st.defaults, alias |-> TRUE])

\* The parsed and validated content of a text: ok is FALSE where JSON.parse
\* or #parse throws.
parseText(st, json) ==
  Let(JSONparse(json),
      LAMBDA j :
        IF ~j.ok THEN [ok |-> FALSE, data |-> <<>>]
        ELSE Let(safeParse(st.schema, j.value),
                 LAMBDA parsed : [ok |-> parsed.success, data |-> parsed.data]))

\* read with a cache: the value is taken from the instance and the file is
\* not opened.
readCached(f, st) == [threw |-> "", fs |-> f, data |-> st.defaults, alias |-> TRUE]

\* read that keeps an existing backup instead of overwriting it.
readKeepsFirstBackup(f, st) ==
  IF ~f[st.path].exists THEN reset(f, st)
  ELSE
    Let(parseText(st, f[st.path].text),
        LAMBDA p :
          IF p.ok
            THEN [threw |-> "", fs |-> f, data |-> p.data, alias |-> FALSE]
            ELSE IF f[backupPath(st.path)].exists THEN reset(f, st)
            ELSE reset([f EXCEPT ![backupPath(st.path)] = File(f[st.path].text)], st))

\* read that copies the file to the backup path on every call.
readBacksUp(f, st) ==
  IF ~f[st.path].exists THEN reset(f, st)
  ELSE
    Let(parseText(st, f[st.path].text),
        LAMBDA p :
          IF p.ok
            THEN [threw |-> "",
                  fs |-> [f EXCEPT ![backupPath(st.path)] = File(f[st.path].text)],
                  data |-> p.data, alias |-> FALSE]
            ELSE reset([f EXCEPT ![backupPath(st.path)] = File(f[st.path].text)], st))

\* read(): a missing file is reset; a file that does not parse or does not
\* match the schema is copied to the backup path and reset; otherwise the
\* parsed value is returned.
read(f, st) ==
  IF ~f[st.path].exists THEN reset(f, st)
  ELSE
    Let(parseText(st, f[st.path].text),
        LAMBDA p :
          IF p.ok
            THEN [threw |-> "", fs |-> f, data |-> p.data, alias |-> FALSE]
            ELSE reset([f EXCEPT ![backupPath(st.path)] = File(f[st.path].text)], st))

\* How a call ends: the file system and the defaults field it leaves, the
\* error it threw ("" when it returned), the value returned, and whether
\* that value is the defaults object itself.
Outcome(f, d, threw, ret, alias) ==
  [fs |-> f, defaults |-> d, threw |-> threw, ret |-> ret, alias |-> alias]

\* An assignment to data also changes this.defaults when data is that object.
Mutated(st, r, data) == IF r.alias THEN [st EXCEPT !.defaults = data] ELSE st

\* The end of set and delete: #save(data), where data may be this.defaults.
saveData(r, st, data, ret) ==
  Let(Mutated(st, r, data),
      LAMBDA st2 :
        Let(save(r.fs, st2, data),
            LAMBDA s : Outcome(s.fs, st2.defaults, s.threw,
                               IF s.threw = "" THEN ret ELSE Undefined, FALSE)))

\* set with the serializability check moved after the save: the values are
\* assigned and saved first and the TypeError is thrown last.
setValidatesLast(f, st, keyOrValues, value) ==
  Let(read(f, st),
      LAMBDA r :
        IF r.threw # "" THEN Outcome(r.fs, st.defaults, r.threw, Undefined, FALSE)
        ELSE Let(IF typeof(keyOrValues) # "object" /\ ~Falsy(value)
                   THEN <<[k |-> keyOrValues.val, v |-> value]>>
                   ELSE IF keyOrValues.tag = "object" THEN keyOrValues.val
                   ELSE StringEntries(keyOrValues.val),
                 LAMBDA entries :
                   Let(saveData(r, st, ObjAssign(r.data, entries), Undefined),
                       LAMBDA o :
                         IF /\ o.threw = ""
                            /\ \E i \in DOMAIN entries : ~validateSerializable(entries[i].v)
                           THEN [o EXCEPT !.threw = "TypeError"]
                           ELSE o)))

\* set that replaces the stored value by the given entries instead of merging
\* them into it.
setReplaces(f, st, keyOrValues, value) ==
  Let(read(f, st),
      LAMBDA r :
        IF r.threw # "" THEN Outcome(r.fs, st.defaults, r.threw, Undefined, FALSE)
        ELSE IF typeof(keyOrValues) # "object" /\ ~Falsy(value)
          THEN IF ~validateSerializable(value)
                 THEN Outcome(r.fs, st.defaults, "TypeError", Undefined, FALSE)
                 ELSE saveData(r, st, ObjSet(<<>>, keyOrValues.val, value), Undefined)
          ELSE Let(IF keyOrValues.tag = "object" THEN keyOrValues.val
                   ELSE StringEntries(keyOrValues.val),
                   LAMBDA entries :
                     IF \E i \in DOMAIN entries : ~validateSerializable(entries[i].v)
                       THEN Outcome(r.fs, st.defaults, "TypeError", Undefined, FALSE)
                       ELSE saveData(r, st, ObjAssign(<<>>, entries), Undefined)))

\* set(keyOrValues, value): keyOrValues is a key (a string) or an object of
\* entries; value is undefined in the one-argument call.
set(f, st, keyOrValues, value) ==
  Let(read(f, st),
      LAMBDA r :
        IF r.threw # "" THEN Outcome(r.fs, st.defaults, r.threw, Undefined, FALSE)
        ELSE IF typeof(keyOrValues) # "object" /\ ~Falsy(value)
          THEN IF ~validateSerializable(value)
                 THEN Outcome(r.fs, st.defaults, "TypeError", Undefined, FALSE)
                 ELSE saveData(r, st, ObjSet(r.data, keyOrValues.val, value), Undefined)
          ELSE Let(IF keyOrValues.tag = "object" THEN keyOrValues.val
                   ELSE StringEntries(keyOrValues.val),
                   LAMBDA entries :
                     IF \E i \in DOMAIN entries : ~validateSerializable(entries[i].v)
                       THEN Outcome(r.fs, st.defaults, "TypeError", Undefined, FALSE)
                       ELSE saveData(r, st, ObjAssign(r.data, entries), Undefined)))

\* get(key, ...restKeys)
get(f, st, key, restKeys) ==
  Let(read(f, st),
      LAMBDA r :
        IF r.threw # "" THEN Outcome(r.fs, st.defaults, r.threw, Undefined, FALSE)
        ELSE IF Len(restKeys) = 0
          THEN Outcome(r.fs, st.defaults, "", ObjGet(r.data, key), FALSE)
          ELSE Outcome(r.fs, st.defaults, "",
                 Obj(ObjAssign(<<>>,
                       <<[k |-> key, v |-> ObjGet(r.data, key)]>>
                       \o SelectSeq(r.data,
                            LAMBDA e : \E i \in DOMAIN restKeys : restKeys[i] = e.k))),
                 FALSE))

Bool(b) == IF b THEN BoolTrue ELSE BoolFalse

\* has(...keys)
has(f, st, keys) ==
  Let(read(f, st),
      LAMBDA r :
        IF r.threw # "" THEN Outcome(r.fs, st.defaults, r.threw, Undefined, FALSE)
        ELSE Outcome(r.fs, st.defaults, "",
                     Bool(\A i \in DOMAIN keys : In(keys[i], r.data)), FALSE))

\* The loop of delete over keys[i..]: the data left, and the two flags.
RECURSIVE deleteLoop(_, _, _)
deleteLoop(keys, i, acc) ==
  IF i > Len(keys) THEN acc
  ELSE IF In(keys[i], acc.data)
    THEN deleteLoop(keys, i + 1,
           [acc EXCEPT !.data = ObjDelete(acc.data, keys[i]), !.didDeleteSome = TRUE])
    ELSE deleteLoop(keys, i + 1, [acc EXCEPT !.didDeleteAll = FALSE])

\* delete(...keys)
delete(f, st, keys) ==
  Let(read(f, st),
      LAMBDA r :
        IF r.threw # "" THEN Outcome(r.fs, st.defaults, r.threw, Undefined, FALSE)
        ELSE Let(deleteLoop(keys, 1,
                   [data |-> r.data, didDeleteSome |-> FALSE, didDeleteAll |-> TRUE]),
                 LAMBDA d :
                   IF d.didDeleteSome
                     THEN saveData(r, st, d.data, Bool(d.didDeleteAll))
                     ELSE Outcome(r.fs, st.defaults, "", Bool(d.didDeleteAll), FALSE)))

\* rm that removes the backup file as well.
rmAll(f, st) == [f EXCEPT ![st.path] = NoFile, ![backupPath(st.path)] = NoFile]

\* rm(): remove the file; the error for a missing file is swallowed.
rm(f, st) == [f EXCEPT ![st.path] = NoFile]

(***************************************************************************)
(* The inputs the calls are tried with                                     *)
(***************************************************************************)
Entry(k, v) == [k |-> k, v |-> v]

\* The constructor options: a schema and defaults that satisfy it.
Configs ==
  { [schema |-> LooseSchema, defaults |-> <<>>],
    [schema |-> TypedSchema, defaults |-> <<Entry("a", Num1), Entry("b", StrA)>>] }

\* Constructor options whose defaults the schema rejects: the constructor
\* takes them as they are.
InvalidConfigs ==
  { [schema |-> TypedSchema, defaults |-> <<Entry("a", StrA), Entry("b", StrA)>>] }

SetKeys == {"a"}

SetValues == {Num0, Num1, StrEmpty, StrA, Null, Undefined, Func, Sym, BigInt123}

SetObjects ==
  { <<Entry("a", Num0), Entry("b", StrA)>>,
    <<Entry("a", StrA)>>,
    <<Entry("a", Num1), Entry("b", Undefined)>>,
    <<Entry("b", Func)>>,
    <<Entry("a", Null)>> }

\* Objects with a key outside the schema's shape, tried where the schema
\* strips such keys.
UnknownKeyObjects(schema) ==
  IF schema.mode = "strip" THEN { <<Entry("c", Num1)>> } ELSE {}

KeyLists == { <<>>, <<"a">>, <<"b", "a">>, <<"toString">> }

\* What an outside writer leaves in the file: text that is not JSON, JSON
\* that is not an object, and compact JSON objects.
ExternalTexts ==
  { <<LBrace, Junk("invalid json"), RBrace>>,
    <<Tok("number", "1")>>,
    Compact(<<Entry("a", StrA), Entry("b", StrA)>>),
    Compact(<<Entry("b", StrA), Entry("a", Num0)>>) }

\* Schema-valid texts with a key outside the schema's shape, left where the
\* schema strips such keys.
UnknownKeyTexts(schema) ==
  IF schema.mode = "strip"
    THEN { Compact(<<Entry("a", Num0), Entry("b", StrA), Entry("c", Num1)>>) }
    ELSE {}

(***************************************************************************)
(* The calls                                                               *)
(***************************************************************************)
Call(op, keyOrValues, value, keys, o) ==
  [op |-> op, keyOrValues |-> keyOrValues, value |-> value, keys |-> keys,
   threw |-> o.threw, ret |-> o.ret, alias |-> o.alias]

\* The instance after a call that left its defaults field as o.defaults.
Stored(o) == [store EXCEPT !.defaults = o.defaults]

\* The processes that may call the store on one path.
Procs == {"p1", "p2"}

\* No call is running in any process.
NoCall ==
  [pc |-> "off", obj |-> <<>>, json |-> <<>>, data |-> <<>>, defaults |-> <<>>,
   alias |-> FALSE, recovering |-> FALSE, pending |-> <<>>, wrote |-> <<>>, threw |-> ""]

\* No getProjectRoot call is running.
NoWalk == [status |-> "off"]

\* The step-by-step runs are not started.
Atomic ==
  /\ procs = [p \in Procs |-> NoCall]
  /\ writer = "none"
  /\ walk = NoWalk

Init ==
  /\ Atomic
  /\ \E c \in Configs :
       /\ store = [path |-> StorePath, schema |-> c.schema, defaults |-> c.defaults]
       /\ ctor = store
  /\ fs = [p \in Paths |-> NoFile]
  /\ last = [op |-> "constructor", keyOrValues |-> Undefined, value |-> Undefined,
             keys |-> <<>>, threw |-> "", ret |-> Undefined, alias |-> FALSE]

\* The outcome of a call that returns what read() or reset() returned.
Returned(r, st) ==
  Outcome(r.fs, st.defaults, r.threw,
          IF r.threw = "" THEN Obj(r.data) ELSE Undefined,
          r.threw = "" /\ r.alias)

Read ==
  \E o \in {Returned(read(fs, store), store)} :
    /\ fs' = o.fs
    /\ store' = Stored(o)
    /\ last' = Call("read", Undefined, Undefined, <<>>, o)
    /\ UNCHANGED <<ctor, steps>>

SetKey ==
  \E k \in SetKeys, v \in SetValues :
    \E o \in {set(fs, store, [tag |-> "string", val |-> k], v)} :
      /\ fs' = o.fs
      /\ store' = Stored(o)
      /\ last' = Call("set", [tag |-> "string", val |-> k], v, <<>>, o)
      /\ UNCHANGED <<ctor, steps>>

SetObject ==
  \E values \in SetObjects \cup UnknownKeyObjects(store.schema) :
    \E o \in {set(fs, store, Obj(values), Undefined)} :
      /\ fs' = o.fs
      /\ store' = Stored(o)
      /\ last' = Call("set", Obj(values), Undefined, <<>>, o)
      /\ UNCHANGED <<ctor, steps>>

Get ==
  \E keys \in KeyLists \ {<<>>} :
    \E o \in {get(fs, store, Head(keys), Tail(keys))} :
      /\ fs' = o.fs
      /\ store' = Stored(o)
      /\ last' = Call("get", Undefined, Undefined, keys, o)
      /\ UNCHANGED <<ctor, steps>>

Has ==
  \E keys \in KeyLists :
    \E o \in {has(fs, store, keys)} :
      /\ fs' = o.fs
      /\ store' = Stored(o)
      /\ last' = Call("has", Undefined, Undefined, keys, o)
      /\ UNCHANGED <<ctor, steps>>

Delete ==
  \E keys \in KeyLists :
    \E o \in {delete(fs, store, keys)} :
      /\ fs' = o.fs
      /\ store' = Stored(o)
      /\ last' = Call("delete", Undefined, Undefined, keys, o)
      /\ UNCHANGED <<ctor, steps>>

Reset ==
  \E o \in {Returned(reset(fs, store), store)} :
    /\ fs' = o.fs
    /\ store' = Stored(o)
    /\ last' = Call("reset", Undefined, Undefined, <<>>, o)
    /\ UNCHANGED <<ctor, steps>>

Rm ==
  /\ fs' = rm(fs, store)
  /\ last' = Call("rm", Undefined, Undefined, <<>>,
                  Outcome(fs', store.defaults, "", Undefined, FALSE))
  /\ UNCHANGED <<store, ctor, steps>>

\* A writer outside the store replaces the file's content.
ExternalWrite ==
  \E text \in ExternalTexts \cup UnknownKeyTexts(store.schema) :
    /\ fs' = [fs EXCEPT ![store.path] = File(text)]
    /\ last' = [op |-> "external", keyOrValues |-> Undefined, value |-> Undefined,
                keys |-> <<>>, threw |-> "", ret |-> Undefined, alias |-> FALSE]
    /\ UNCHANGED <<store, ctor, steps>>

Next ==
  \/ Read
  \/ SetKey
  \/ SetObject
  \/ Get
  \/ Has
  \/ Delete
  \/ Reset
  \/ Rm
  \/ ExternalWrite

Spec == Init /\ [][Next]_vars

\* The state after construction with any options, defaults the schema
\* rejects included.
InitAnyDefaults ==
  /\ Atomic
  /\ \E c \in Configs \cup InvalidConfigs :
       /\ store = [path |-> StorePath, schema |-> c.schema, defaults |-> c.defaults]
       /\ ctor = store
  /\ fs = [p \in Paths |-> NoFile]
  /\ last = [op |-> "constructor", keyOrValues |-> Undefined, value |-> Undefined,
             keys |-> <<>>, threw |-> "", ret |-> Undefined, alias |-> FALSE]

SpecAnyDefaults == InitAnyDefaults /\ [][Next]_vars

\* The store's calls alone, without a writer outside the store.
StoreNext ==
  \/ Read
  \/ SetKey
  \/ SetObject
  \/ Get
  \/ Has
  \/ Delete
  \/ Reset
  \/ Rm

SpecStoreOnly == InitAnyDefaults /\ [][StoreNext]_vars

TypeOK ==
  /\ DOMAIN fs = Paths
  /\ store.path = ctor.path
  /\ last.threw \in {"", "Error", "TypeError"}

(***************************************************************************)
(* set(obj) in steps.  Each process has its own instance on the same path  *)
(* and runs one set call; a step is one call of the file system, followed  *)
(* by the local computation up to the next one.  writeFileSync with flag   *)
(* "w" is two steps: the open, which creates or truncates the file, and    *)
(* the write of the text at the start of the open file.                    *)
(***************************************************************************)
\* open(path, "w")
openTruncate(f, path) == [f EXCEPT ![path] = File(<<>>)]

\* The write of text at offset 0 of the open file: what the file holds
\* beyond the text's length stays.
writeOpen(f, path, text) ==
  [f EXCEPT ![path] =
     File(text \o SubSeq(f[path].text, Len(text) + 1, Len(f[path].text)))]

\* How a call ends in process state pr.
Ended(pr, threw) == [pr EXCEPT !.pc = "done", !.threw = threw]

\* The start of reset(): #save validates and stringifies the defaults, then
\* opens the file.
startReset(pr, st) ==
  Let(safeParse(st.schema, Obj(pr.defaults)),
      LAMBDA parsed :
        IF ~parsed.success THEN Ended(pr, "Error")
        ELSE IF StringifyThrows(parsed.data) THEN Ended(pr, "TypeError")
        ELSE [pr EXCEPT !.pc = "resetOpen", !.pending = Stringify(parsed.data)])

\* The catch branch without the backup: the file is reset at once.
resetWithoutBackup(pr, st) == startReset([pr EXCEPT !.recovering = TRUE], st)

\* The catch branch of read() for a text that does not parse or validate:
\* the text is first written to the backup path.
afterCorrupt(pr, st) == [pr EXCEPT !.pc = "backupOpen", !.recovering = TRUE]

\* set after its read() returned data: the serializability check, the
\* assignment, and the validation and stringify of #save.
merge(pr, st, data, alias) ==
  IF \E i \in DOMAIN pr.obj : ~validateSerializable(pr.obj[i].v)
    THEN Ended(pr, "TypeError")
    ELSE Let(ObjAssign(data, pr.obj),
             LAMBDA d :
               Let([pr EXCEPT !.data = d, !.alias = alias,
                              !.defaults = IF alias THEN d ELSE pr.defaults],
                   LAMBDA pr2 :
                     Let(safeParse(st.schema, Obj(d)),
                         LAMBDA parsed :
                           IF ~parsed.success THEN Ended(pr2, "Error")
                           ELSE IF StringifyThrows(parsed.data) THEN Ended(pr2, "TypeError")
                           ELSE [pr2 EXCEPT !.pc = "saveOpen",
                                            !.pending = Stringify(parsed.data)])))

\* readFileSync(this.path, "utf8") and what follows it without a call of the
\* file system.
ReadFile(p) ==
  /\ procs[p].pc = "readFile"
  /\ procs' = [procs EXCEPT ![p] =
       IF ~fs[store.path].exists THEN startReset(procs[p], store)
       ELSE Let([procs[p] EXCEPT !.json = fs[store.path].text],
                LAMBDA pr :
                  Let(parseText(store, pr.json),
                      LAMBDA parsed :
                        IF parsed.ok THEN merge(pr, store, parsed.data, FALSE)
                        ELSE afterCorrupt(pr, store)))]
  /\ UNCHANGED <<store, ctor, fs, last, writer, walk>>

\* writeFileSync(backupPath, json): the open
BackupOpen(p) ==
  /\ procs[p].pc = "backupOpen"
  /\ fs' = openTruncate(fs, backupPath(store.path))
  /\ procs' = [procs EXCEPT ![p].pc = "backupWrite"]
  /\ UNCHANGED <<store, ctor, last, writer, walk>>

\* writeFileSync(backupPath, json): the write; then reset() starts
BackupWrite(p) ==
  /\ procs[p].pc = "backupWrite"
  /\ fs' = writeOpen(fs, backupPath(store.path), procs[p].json)
  /\ procs' = [procs EXCEPT ![p] = startReset(procs[p], store)]
  /\ UNCHANGED <<store, ctor, last, writer, walk>>

\* writeFileSync(this.path, json) of reset(): the open
ResetOpen(p) ==
  /\ procs[p].pc = "resetOpen"
  /\ fs' = openTruncate(fs, store.path)
  /\ procs' = [procs EXCEPT ![p].pc = "resetWrite"]
  /\ UNCHANGED <<store, ctor, last, writer, walk>>

\* writeFileSync(this.path, json) of reset(): the write; read() then returns
\* this.defaults and set goes on with it
ResetWrite(p) ==
  /\ procs[p].pc = "resetWrite"
  /\ fs' = writeOpen(fs, store.path, procs[p].pending)
  /\ procs' = [procs EXCEPT ![p] = merge(procs[p], store, procs[p].defaults, TRUE)]
  /\ UNCHANGED <<store, ctor, last, writer, walk>>

\* writeFileSync(this.path, json) of set's #save: the open
SaveOpen(p) ==
  /\ procs[p].pc = "saveOpen"
  /\ fs' = openTruncate(fs, store.path)
  /\ procs' = [procs EXCEPT ![p].pc = "saveWrite"]
  /\ UNCHANGED <<store, ctor, last, writer, walk>>

\* writeFileSync(this.path, json) of set's #save: the write; set returns
SaveWrite(p) ==
  /\ procs[p].pc = "saveWrite"
  /\ fs' = writeOpen(fs, store.path, procs[p].pending)
  /\ procs' = [procs EXCEPT ![p].pc = "done", ![p].wrote = procs[p].pending]
  /\ writer' = p
  /\ UNCHANGED <<store, ctor, last, walk>>

\* The objects the processes call set with.
StepObjects ==
  { <<Entry("a", Num0), Entry("b", StrA)>>,
    <<Entry("a", StrA)>>,
    <<Entry("b", Func)>> }

\* A process about to call set(obj) on an instance with the given defaults.
SetCall(obj, defaults) == [NoCall EXCEPT !.pc = "readFile", !.obj = obj, !.defaults = defaults]

\* One process, or two, about to call set on a path whose file is missing or
\* holds a text left by an outside writer.
StepInit ==
  /\ \E c \in Configs :
       /\ store = [path |-> StorePath, schema |-> c.schema, defaults |-> c.defaults]
       /\ ctor = store
       /\ \E o1 \in StepObjects :
            \E second \in {<<>>} \cup {<<o2>> : o2 \in StepObjects} :
              procs = [p \in Procs |->
                         IF p = "p1" THEN SetCall(o1, c.defaults)
                         ELSE IF second = <<>> THEN NoCall
                         ELSE SetCall(second[1], c.defaults)]
       /\ \E file \in {NoFile} \cup {File(t) : t \in ExternalTexts \cup UnknownKeyTexts(c.schema)} :
            fs = [p \in Paths |-> IF p = StorePath THEN file ELSE NoFile]
  /\ writer = "none"
  /\ walk = NoWalk
  /\ last = [op |-> "constructor", keyOrValues |-> Undefined, value |-> Undefined,
             keys |-> <<>>, threw |-> "", ret |-> Undefined, alias |-> FALSE]

StepNext ==
  \/ \E p \in Procs : ReadFile(p)
  \/ \E p \in Procs : BackupOpen(p)
  \/ \E p \in Procs : BackupWrite(p)
  \/ \E p \in Procs : ResetOpen(p)
  \/ \E p \in Procs : ResetWrite(p)
  \/ \E p \in Procs : SaveOpen(p)
  \/ \E p \in Procs : SaveWrite(p)

SpecSteps == StepInit /\ [][StepNext]_vars

(***************************************************************************)
(* getProjectRoot(dirPath) in steps, one per call of the function.  A path *)
(* is a list of segments that is absolute ("/a/b") or relative to the      *)
(* working directory ("a/b", and "." with no segment); a directory of the  *)
(* tree is the list of segments from the root.                             *)
(***************************************************************************)
AbsPath(segs) == [abs |-> TRUE, segs |-> segs]

RelPath(segs) == [abs |-> FALSE, segs |-> segs]

\* path.dirname: the path without its last segment; "/" and "." are their
\* own dirname.
dirname(path) ==
  IF path.segs = <<>> THEN path
  ELSE [path EXCEPT !.segs = SubSeq(path.segs, 1, Len(path.segs) - 1)]

\* The directory a path names for a process whose working directory is cwd.
Resolve(cwd, path) == IF path.abs THEN path.segs ELSE cwd \o path.segs

\* The directories of the tree.
Dirs ==
  { <<>>, <<"a">>, <<"a", "b">>, <<"a", "b", "c">>, <<"a", "d">> }

\* readdirSync(dirPath).includes("package.json"), in the call w
includesPackageJson(w, dirPath) == Resolve(w.cwd, dirPath) \in w.markers

\* One call of getProjectRoot: return dirPath, throw, or call itself with
\* the parent directory.
GetProjectRoot ==
  /\ walk.status = "running"
  /\ walk' =
       IF includesPackageJson(walk, walk.dirPath)
         THEN [walk EXCEPT !.status = "returned", !.result = walk.dirPath]
       ELSE IF dirname(walk.dirPath) = walk.dirPath
         THEN [walk EXCEPT !.status = "threw"]
       ELSE [walk EXCEPT !.dirPath = dirname(walk.dirPath)]
  /\ UNCHANGED <<store, ctor, fs, last, procs, writer>>

\* getProjectRoot is called with an absolute or a relative path of a
\* directory of the tree, in any working directory, with package.json in
\* any set of directories.
WalkInit ==
  /\ \E cwd \in Dirs, markers \in SUBSET Dirs :
       \E start \in {AbsPath(d) : d \in Dirs}
                    \cup {RelPath(SubSeq(d, Len(cwd) + 1, Len(d))) :
                            d \in {e \in Dirs : Len(e) >= Len(cwd)
                                                /\ SubSeq(e, 1, Len(cwd)) = cwd}} :
         walk = [status |-> "running", cwd |-> cwd, markers |-> markers,
                 start |-> start, dirPath |-> start, result |-> start]
  /\ store = [path |-> StorePath, schema |-> LooseSchema, defaults |-> <<>>]
  /\ ctor = store
  /\ fs = [p \in Paths |-> NoFile]
  /\ last = [op |-> "constructor", keyOrValues |-> Undefined, value |-> Undefined,
             keys |-> <<>>, threw |-> "", ret |-> Undefined, alias |-> FALSE]
  /\ procs = [p \in Procs |-> NoCall]
  /\ writer = "none"

WalkNext == GetProjectRoot

\* Every call returns, throws or makes the next call.
SpecProjectRoot == WalkInit /\ [][WalkNext]_vars /\ WF_vars(GetProjectRoot)

(***************************************************************************)
(* Vocabulary of the properties                                            *)
(***************************************************************************)
MainFile(f) == f[StorePath]

BackupFile(f) == f[backupPath(StorePath)]

\* The file holds exactly the pretty-printed text of the object o.
Holds(file, o) == file = File(Stringify(o))

\* The text of the file does not parse as JSON.
Unparsable(file) == file.exists /\ ~JSONparse(file.text).ok

\* The text of the file is JSON that the schema rejects.
SchemaInvalid(file) ==
  /\ file.exists
  /\ JSONparse(file.text).ok
  /\ ~safeParse(ctor.schema, JSONparse(file.text).value).success

\* The text of the file is JSON that the schema accepts.
Healthy(file) ==
  /\ file.exists
  /\ JSONparse(file.text).ok
  /\ safeParse(ctor.schema, JSONparse(file.text).value).success

SingleKeySet(c) == c.op = "set" /\ c.keyOrValues.tag = "string"

ObjectSet(c) == c.op = "set" /\ c.keyOrValues.tag = "object"

\* The spec's unsupported-type set.
Unsupported(v) == typeof(v) \in {"undefined", "function", "symbol", "bigint"}

\* The call c passes a value of an unsupported type.
PassesUnsupported(c) ==
  \/ SingleKeySet(c) /\ Unsupported(c.value)
  \/ ObjectSet(c) /\ \E i \in DOMAIN c.keyOrValues.val : Unsupported(c.keyOrValues.val[i].v)

RECURSIVE DeleteAll(_, _)
DeleteAll(o, keys) ==
  IF keys = <<>> THEN o ELSE DeleteAll(ObjDelete(o, Head(keys)), Tail(keys))

\* The value the mutation c is meant to save, given the value read before it.
Intended(c, before) ==
  IF SingleKeySet(c) THEN ObjSet(before, c.keyOrValues.val, c.value)
  ELSE IF ObjectSet(c) THEN ObjAssign(before, c.keyOrValues.val)
  ELSE DeleteAll(before, c.keys)

\* read() in this state returns normally a value deep-equal to o.
ReadsAs(f, st, o) == read(f, st).threw = "" /\ DeepEqual(read(f, st).data, o)

(***************************************************************************)
(* C1: read() never raises and always returns a value that satisfies the   *)
(* schema, whatever the file holds and whatever calls came before.         *)
(***************************************************************************)
C1_ReadAlwaysSucceeds ==
  last.op = "read" =>
    /\ last.threw = ""
    /\ safeParse(ctor.schema, last.ret).success

(***************************************************************************)
(* C2: reset() returns a value equal to the defaults the constructor was   *)
(* given, leaves the file holding their serialization, and a following     *)
(* read() returns a value equal to them.                                   *)
(***************************************************************************)
C2_ResetRestoresConstructorDefaults ==
  last.op = "reset" =>
    /\ last.threw = ""
    /\ DeepEqual(last.ret.val, ctor.defaults)
    /\ Holds(MainFile(fs), ctor.defaults)
    /\ ReadsAs(fs, store, ctor.defaults)

(***************************************************************************)
(* C3: the instance's path, schema and defaults never change, and the      *)
(* value read() or reset() returns is not the defaults object itself.      *)
(***************************************************************************)
C3_StoreHoldsNoMutableState ==
  /\ store = ctor
  /\ ~last.alias

(***************************************************************************)
(* C4: after set(k, v) returns normally, for a serializable v the schema   *)
(* accepts for k (falsy values included), read() returns a value whose     *)
(* entry k is v, whose other keys have the values they had before, and     *)
(* that has no other new key.                                              *)
(***************************************************************************)
C4_SingleKeySetRoundTrips ==
  [][ ( /\ SingleKeySet(last')
        /\ last'.threw = ""
        /\ ~Unsupported(last'.value)
        /\ read(fs, store).threw = ""
        /\ safeParse(ctor.schema,
                     Obj(ObjSet(read(fs, store).data, last'.keyOrValues.val, last'.value))).success )
      => LET k == last'.keyOrValues.val
             before == read(fs, store).data
             after == read(fs', store')
         IN /\ after.threw = ""
            /\ ObjGet(after.data, k) = last'.value
            /\ ObjKeys(after.data) = ObjKeys(before) \cup {k}
            /\ \A k2 \in ObjKeys(before) \ {k} : ObjGet(after.data, k2) = ObjGet(before, k2)
    ]_vars

(***************************************************************************)
(* C5: set raises a TypeError whenever a value to be stored has type       *)
(* undefined, function, symbol or bigint, in both call shapes.             *)
(***************************************************************************)
C5_SetRejectsUnsupportedTypes ==
  PassesUnsupported(last) => last.threw = "TypeError"

C7_InvalidMutationFailsAndChangesNothing ==
  [][ ( /\ last'.op \in {"set", "delete"}
        /\ ~PassesUnsupported(last')
        /\ read(fs, store).threw = ""
        /\ ~safeParse(ctor.schema, Obj(Intended(last', read(fs, store).data))).success )
      => /\ last'.threw # ""
         /\ MainFile(fs') = MainFile(fs)
    ]_vars

(***************************************************************************)
(* C8: read() on a file whose text is not JSON returns the defaults,       *)
(* leaves the original text at <path>.bak and the serialized defaults in   *)
(* the main file.                                                          *)
(***************************************************************************)
C8_UnparsableFileRecovers ==
  [][ (last'.op = "read" /\ Unparsable(MainFile(fs)))
      => /\ last'.threw = ""
         /\ DeepEqual(last'.ret.val, ctor.defaults)
         /\ BackupFile(fs') = File(MainFile(fs).text)
         /\ Holds(MainFile(fs'), ctor.defaults)
    ]_vars

\* What a read() call does with the file at the main path: how it ends, what
\* it returns, whether the backup holds the file's text afterwards, and what
\* the main file holds afterwards when the call replaced it.
ReadResult(f, st) ==
  LET r == read(f, st) IN
  [threw |-> r.threw,
   data |-> IF r.threw = "" THEN r.data ELSE <<>>,
   backedUp |-> BackupFile(r.fs) = File(MainFile(f).text),
   replaced |-> MainFile(r.fs) # MainFile(f),
   main |-> IF MainFile(r.fs) # MainFile(f) THEN MainFile(r.fs) ELSE NoFile]

(***************************************************************************)
(* C9: read() on a file of well-formed JSON that fails the schema has the  *)
(* same outcome as on an unparsable file: it returns the defaults, writes  *)
(* the original text to <path>.bak and leaves the serialized defaults in   *)
(* the main file.                                                          *)
(***************************************************************************)
C9_SchemaInvalidLikeUnparsable ==
  [][ (last'.op = "read" /\ SchemaInvalid(MainFile(fs)))
      => /\ \A text \in ExternalTexts :
              Unparsable(File(text)) =>
                ReadResult([fs EXCEPT ![StorePath] = File(text)], store)
                  = ReadResult(fs, store)
         /\ last'.threw = ""
         /\ DeepEqual(last'.ret.val, ctor.defaults)
         /\ BackupFile(fs') = File(MainFile(fs).text)
         /\ Holds(MainFile(fs'), ctor.defaults)
    ]_vars

(***************************************************************************)
(* C10: read() on a missing file returns a value equal to the defaults,    *)
(* leaves the file holding the serialized defaults, and creates no .bak    *)
(* file.                                                                   *)
(***************************************************************************)
C10_MissingFileIsCreated ==
  [][ (last'.op = "read" /\ ~MainFile(fs).exists)
      => /\ last'.threw = ""
         /\ DeepEqual(last'.ret.val, ctor.defaults)
         /\ Holds(MainFile(fs'), ctor.defaults)
         /\ BackupFile(fs') = BackupFile(fs)
    ]_vars

\* The value JSON.parse gives for the text of the file.
Content(file) == JSONparse(file.text).value

\* The schema's output for the text of the file.
Parsed(file) == safeParse(ctor.schema, Content(file)).data

\* A file system that holds nothing but the main file.
Only(file) == [p \in Paths |-> IF p = StorePath THEN file ELSE NoFile]

\* No key of the list is a property every object inherits.
Plain(keys) == \A i \in DOMAIN keys : keys[i] \notin InheritedKeys

\* The call c answers as the same call does on a newly constructed instance
\* whose file is the given one.
AnswersFrom(c, file) ==
  /\ c.op = "get" =>
       c.ret = get(Only(file), ctor, Head(c.keys), Tail(c.keys)).ret
  /\ c.op = "has" => c.ret = has(Only(file), ctor, c.keys).ret

(***************************************************************************)
(* C11 as stated: after any calls, when the file has been replaced from    *)
(* outside with schema-valid content c, the next read() returns a value    *)
(* equal to c, and get and has answer from c, whatever earlier calls       *)
(* returned.                                                               *)
(***************************************************************************)
C11_ReadsNeverCached ==
  [][ ( /\ last.op = "external"
        /\ Healthy(MainFile(fs))
        /\ last'.op \in {"read", "get", "has"} )
      => LET c == Content(MainFile(fs)).val IN
         /\ last'.threw = ""
         /\ fs' = fs
         /\ last'.op = "read" => DeepEqual(last'.ret.val, c)
         /\ (last'.op = "get" /\ Len(last'.keys) = 1) =>
              last'.ret = ObjGet(c, last'.keys[1])
         /\ (last'.op = "has" /\ Plain(last'.keys)) =>
              last'.ret = Bool(\A i \in DOMAIN last'.keys : HasKey(c, last'.keys[i]))
         /\ AnswersFrom(last', MainFile(fs))
    ]_vars

(***************************************************************************)
(* C11 amended: after any calls, when the file has been replaced from      *)
(* outside with schema-valid content c, the next read() returns the        *)
(* schema's output for c (c itself unless the schema strips keys of c),    *)
(* and get and has answer from that value, whatever earlier calls          *)
(* returned.                                                               *)
(***************************************************************************)
C11_ReadsReflectFile ==
  [][ ( /\ last.op = "external"
        /\ Healthy(MainFile(fs))
        /\ last'.op \in {"read", "get", "has"} )
      => LET p == Parsed(MainFile(fs)) IN
         /\ last'.threw = ""
         /\ fs' = fs
         /\ last'.op = "read" => DeepEqual(last'.ret.val, p)
         /\ (last'.op = "read" /\ ctor.schema.mode = "loose") =>
              DeepEqual(last'.ret.val, Content(MainFile(fs)).val)
         /\ (last'.op = "get" /\ Len(last'.keys) = 1) =>
              last'.ret = ObjGet(p, last'.keys[1])
         /\ (last'.op = "has" /\ Plain(last'.keys)) =>
              last'.ret = Bool(\A i \in DOMAIN last'.keys : HasKey(p, last'.keys[i]))
         /\ AnswersFrom(last', MainFile(fs))
    ]_vars

\* A read() returned the content an outside writer left, less the key the
\* schema strips, on an instance whose earlier calls had changed its defaults
\* and recovered a corrupt file.
C11_Witness ==
  /\ last.op = "read"
  /\ last.threw = ""
  /\ MainFile(fs).exists
  /\ MainFile(fs).text \in UnknownKeyTexts(ctor.schema)
  /\ DeepEqual(last.ret.val, Parsed(MainFile(fs)))
  /\ ~HasKey(last.ret.val, "c")
  /\ BackupFile(fs).exists
  /\ store # ctor

\* The value the call c hands to #save when it is made in the state (f, st):
\* the defaults for reset, the data after its assignments for set, the data
\* left by its loop for delete.
Saved(c, f, st) ==
  LET r == read(f, st) IN
  IF c.op = "reset" THEN st.defaults
  ELSE IF c.op = "delete"
    THEN deleteLoop(c.keys, 1,
           [data |-> r.data, didDeleteSome |-> FALSE, didDeleteAll |-> TRUE]).data
  ELSE IF SingleKeySet(c) /\ ~Falsy(c.value)
    THEN ObjSet(r.data, c.keyOrValues.val, c.value)
  ELSE IF ObjectSet(c) THEN ObjAssign(r.data, c.keyOrValues.val)
  ELSE ObjAssign(r.data, StringEntries(c.keyOrValues.val))

\* The call c, made in the state (f, st), returned after saving a value.
Saves(c, f, st) ==
  /\ c.op \in {"reset", "set", "delete"}
  /\ c.threw = ""
  /\ c.op = "delete" => \E i \in DOMAIN c.keys : In(c.keys[i], read(f, st).data)

(***************************************************************************)
(* C12 as stated: for every value v that satisfies the schema, after v is  *)
(* saved (by reset with v as defaults, or by a set or delete that produces *)
(* v), read() returns a value deep-equal to v.                             *)
(***************************************************************************)
C12_PersistThenReadRoundTrips ==
  [][ Saves(last', fs, store)
      => LET v == Saved(last', fs, store) IN
         safeParse(ctor.schema, Obj(v)).success => ReadsAs(fs', store', v)
    ]_vars

(***************************************************************************)
(* C12 amended: for every value v the schema accepts, after v is saved (by *)
(* reset, set or delete), read() returns a value deep-equal to the         *)
(* schema's output for v, which is v itself unless the schema strips keys  *)
(* of v, and the file is left as it is.                                    *)
(***************************************************************************)
C12_ReadReturnsWhatWasSaved ==
  [][ Saves(last', fs, store)
      => \E v \in {Saved(last', fs, store)} :
           \E parsed \in {safeParse(ctor.schema, Obj(v))} :
             \E after \in {read(fs', store')} :
               /\ parsed.success
               /\ after.threw = ""
               /\ after.fs = fs'
               /\ DeepEqual(after.data, parsed.data)
               /\ ctor.schema.mode = "loose" => DeepEqual(after.data, v)
               /\ ObjKeys(v) \subseteq ShapeKeys(ctor.schema) => DeepEqual(after.data, v)
    ]_vars

\* A set saved a value with a key the schema strips, and read() returns the
\* value without that key.
C12_Witness ==
  /\ ObjectSet(last)
  /\ last.threw = ""
  /\ last.keyOrValues.val \in UnknownKeyObjects(ctor.schema)
  /\ read(fs, store).threw = ""
  /\ ObjKeys(read(fs, store).data) = ShapeKeys(ctor.schema)

\* The keys of the entries of an object.
EntryKeys(entries) == {entries[i].k : i \in DOMAIN entries}

(***************************************************************************)
(* C13 as stated: after set(obj) returns normally, read() returns a value  *)
(* in which every key of obj has obj's value and every key not in obj has  *)
(* the value it had before the call (and is absent if it was absent).      *)
(***************************************************************************)
C13_MultiKeySetMerges ==
  [][ (ObjectSet(last') /\ last'.threw = "")
      => \E obj \in {last'.keyOrValues.val} :
           \E before \in {read(fs, store)} :
             \E after \in {read(fs', store')} :
               /\ after.threw = ""
               /\ \A i \in DOMAIN obj : ObjGet(after.data, obj[i].k) = obj[i].v
               /\ \A k \in (ObjKeys(before.data) \cup ObjKeys(after.data)) \ EntryKeys(obj) :
                    /\ HasKey(after.data, k) <=> HasKey(before.data, k)
                    /\ ObjGet(after.data, k) = ObjGet(before.data, k)
    ]_vars

(***************************************************************************)
(* C13 amended: after set(obj) returns normally, read() returns the        *)
(* schema's output for the value read before the call merged with obj:     *)
(* every key of obj the schema keeps has obj's value, every other key the  *)
(* schema keeps has the value it had before, and keys the schema strips    *)
(* are absent; under a schema that keeps all keys this is the merge.       *)
(***************************************************************************)
C13_MultiKeySetMergesKeptKeys ==
  [][ (ObjectSet(last') /\ last'.threw = "")
      => \E obj \in {last'.keyOrValues.val} :
           \E before \in {read(fs, store)} :
             \E after \in {read(fs', store')} :
               \E kept \in {IF ctor.schema.mode = "loose"
                               THEN ObjKeys(before.data) \cup EntryKeys(obj)
                               ELSE ShapeKeys(ctor.schema)} :
                 /\ after.threw = ""
                 /\ DeepEqual(after.data,
                              safeParse(ctor.schema, Obj(ObjAssign(before.data, obj))).data)
                 /\ ObjKeys(after.data) = kept
                 /\ \A i \in DOMAIN obj :
                      obj[i].k \in kept => ObjGet(after.data, obj[i].k) = obj[i].v
                 /\ \A k \in kept \ EntryKeys(obj) :
                      ObjGet(after.data, k) = ObjGet(before.data, k)
    ]_vars

\* A set of two keys returned on a file that held a third key, which read()
\* still returns with its value.
C13_Witness ==
  /\ ObjectSet(last)
  /\ last.threw = ""
  /\ EntryKeys(last.keyOrValues.val) = {"a", "b"}
  /\ read(fs, store).threw = ""
  /\ \E k \in ObjKeys(read(fs, store).data) : k \notin {"a", "b"}
  /\ \A i \in DOMAIN last.keyOrValues.val :
       ObjGet(read(fs, store).data, last.keyOrValues.val[i].k) = last.keyOrValues.val[i].v

(***************************************************************************)
(* C14: set rejects a value with a TypeError only when its type is         *)
(* undefined, function, symbol or bigint; every other value, null          *)
(* included, passes the serializability check.                             *)
(***************************************************************************)
C14_RejectsExactlyUnsupported ==
  (last.op = "set" /\ last.threw = "TypeError") => PassesUnsupported(last)

\* The keys of a key list.
Listed(keys) == {keys[i] : i \in DOMAIN keys}

(***************************************************************************)
(* C15: after delete(k1..kn) returns normally, read() returns a value that *)
(* contains no listed key and contains every key that was present before   *)
(* and is not listed, each with its previous value.                        *)
(***************************************************************************)
C15_DeleteRemovesExactlyListedKeys ==
  [][ (last'.op = "delete" /\ last'.threw = "")
      => \E before \in {read(fs, store)} :
           \E after \in {read(fs', store')} :
             /\ after.threw = ""
             /\ ObjKeys(after.data) \cap Listed(last'.keys) = {}
             /\ \A k \in ObjKeys(before.data) \ Listed(last'.keys) :
                  /\ HasKey(after.data, k)
                  /\ ObjGet(after.data, k) = ObjGet(before.data, k)
    ]_vars

(***************************************************************************)
(* C16: a delete none of whose keys is present in the stored value (a call *)
(* with no keys included) does not write the backing file, whatever the    *)
(* file was before.                                                        *)
(***************************************************************************)
C16_NoOpDeleteWritesNothing ==
  [][ ( /\ last'.op = "delete"
        /\ read(fs, store).threw = ""
        /\ ObjKeys(read(fs, store).data) \cap Listed(last'.keys) = {} )
      => MainFile(fs') = MainFile(fs)
    ]_vars

(***************************************************************************)
(* C17: delete(k1..kn) returns true if and only if each listed key was     *)
(* present in the value read at the start of the call, and false when one  *)
(* listed key was absent, even if other listed keys were removed.          *)
(***************************************************************************)
C17_DeleteReportsAllFound ==
  [][ (last'.op = "delete" /\ last'.threw = "")
      => last'.ret = Bool(Listed(last'.keys) \subseteq ObjKeys(read(fs, store).data))
    ]_vars

(***************************************************************************)
(* C18: has(k1..kn) returns true if and only if every given key is an own  *)
(* entry of the value stored in the file; a key that is not an own entry   *)
(* never counts as present.                                                *)
(***************************************************************************)
C18_HasTrueIffAllOwnEntries ==
  [][ (last'.op = "has" /\ last'.threw = "")
      => last'.ret = Bool(Listed(last'.keys) \subseteq ObjKeys(read(fs, store).data))
    ]_vars

(***************************************************************************)
(* C19: get(k1, k2..kn) returns an object whose keys are exactly k1..kn in *)
(* the order given, each mapped to its value in the freshly read data, an  *)
(* absent key being treated the same whether it is the first or a later    *)
(* one.                                                                    *)
(***************************************************************************)
C19_GetReturnsExactlyRequestedKeys ==
  [][ (last'.op = "get" /\ Len(last'.keys) > 1 /\ last'.threw = "")
      => /\ last'.ret.tag = "object"
         /\ [i \in DOMAIN last'.ret.val |-> last'.ret.val[i].k] = last'.keys
         /\ \A i \in DOMAIN last'.ret.val :
              last'.ret.val[i].v = ObjGet(read(fs, store).data, last'.ret.val[i].k)
    ]_vars

(***************************************************************************)
(* C20: the constructor raises when the defaults it is given fail schema   *)
(* validation, so every constructed store has defaults that satisfy its    *)
(* schema.                                                                 *)
(***************************************************************************)
C20_ConstructedDefaultsSatisfySchema ==
  safeParse(ctor.schema, Obj(ctor.defaults)).success

\* The operations that start with read().
Readers == {"read", "get", "has", "set", "delete"}

\* The main file exists and read() would not accept its text.
Corrupt(file) == file.exists /\ ~Healthy(file)

(***************************************************************************)
(* C21: after rm() the backing file does not exist; rm() on a file that is *)
(* already absent returns without raising and changes nothing; rm() never  *)
(* touches the .bak file.                                                  *)
(***************************************************************************)
C21_RmDeletesAndToleratesAbsence ==
  [][ last'.op = "rm"
      => /\ last'.threw = ""
         /\ ~MainFile(fs').exists
         /\ \A p \in Paths \ {StorePath} : fs'[p] = fs[p]
         /\ ~MainFile(fs).exists => fs' = fs
         /\ store' = store
    ]_vars

\* rm() has removed the main file of a store that has a backup file.
C21_Witness ==
  /\ last.op = "rm"
  /\ ~MainFile(fs).exists
  /\ BackupFile(fs).exists

(***************************************************************************)
(* C22: a step that takes the backing file from existing to absent is      *)
(* always an rm() call; read, get, has, set, delete and reset never leave  *)
(* an existing file absent, whether they return or raise.                  *)
(***************************************************************************)
C22_OnlyRmDestroysFile ==
  [][ (MainFile(fs).exists /\ ~MainFile(fs').exists) => last'.op = "rm" ]_vars

\* A set or delete raised and the file is still there.
C22_Witness ==
  /\ last.op \in {"set", "delete"}
  /\ last.threw = "Error"
  /\ MainFile(fs).exists

(***************************************************************************)
(* C24: after each corruption recovery <path>.bak holds exactly the text   *)
(* the main file held when the recovery started, a later recovery          *)
(* overwriting an earlier backup, and no other file is created.            *)
(***************************************************************************)
C24_OneBackupSlotHoldsLatest ==
  [][ (last'.op \in Readers /\ Corrupt(MainFile(fs)))
      => /\ BackupFile(fs') = File(MainFile(fs).text)
         /\ \A p \in Paths \ {StorePath, backupPath(StorePath)} : fs'[p] = fs[p]
    ]_vars

\* A recovery left the JSON text 1 in the backup while the main file was
\* reset.
C24_Witness ==
  /\ last.op \in Readers
  /\ BackupFile(fs) = File(<<Tok("number", "1")>>)
  /\ MainFile(fs).exists
  /\ MainFile(fs).text # BackupFile(fs).text

\* The result of repeating the call c in the state (f, st).
Again(c, f, st) ==
  IF c.op = "read" THEN Returned(read(f, st), st).ret
  ELSE IF c.op = "get" THEN get(f, st, Head(c.keys), Tail(c.keys)).ret
  ELSE has(f, st, c.keys).ret

(***************************************************************************)
(* C28: when the backing file holds schema-valid JSON, read(), get(...)    *)
(* and has(...) leave the main file and the .bak file exactly as they      *)
(* were, and the same call made again returns an equal result.             *)
(***************************************************************************)
C28_HealthyReadChangesNothing ==
  [][ (last'.op \in {"read", "get", "has"} /\ Healthy(MainFile(fs)))
      => /\ last'.threw = ""
         /\ fs' = fs
         /\ Again(last', fs', store') = last'.ret
    ]_vars

\* has() answered on a file an outside writer left, beside a backup file.
C28_Witness ==
  /\ last.op = "has"
  /\ last.threw = ""
  /\ Healthy(MainFile(fs))
  /\ MainFile(fs).text \in ExternalTexts
  /\ BackupFile(fs).exists

(***************************************************************************)
(* C29: <path>.bak is created or changed only by an operation that starts  *)
(* with read() and found the main file existing with unparsable or         *)
(* schema-invalid content; a missing main file, reset(), rm() and every    *)
(* operation on a valid file leave it untouched.                           *)
(***************************************************************************)
C29_BackupChangesOnlyInRecovery ==
  [][ BackupFile(fs') # BackupFile(fs)
      => /\ last'.op \in Readers
         /\ Corrupt(MainFile(fs))
    ]_vars

\* A get found unparsable text and left it in the backup.
C29_Witness ==
  /\ last.op = "get"
  /\ BackupFile(fs).exists
  /\ Unparsable(BackupFile(fs))

(***************************************************************************)
(* C23: in every state reached from an absent file by the store's calls    *)
(* alone, the backing file is absent or holds well-formed JSON that        *)
(* satisfies the schema.                                                   *)
(***************************************************************************)
C23_StoreNeverWritesInvalidContent ==
  ~MainFile(fs).exists \/ Healthy(MainFile(fs))

\* A set was refused by the schema and the file still holds valid content.
C23_Witness ==
  /\ last.op = "set"
  /\ last.threw = "Error"
  /\ Healthy(MainFile(fs))
  /\ store # ctor

\* Both processes ran their set call and both calls returned.
BothReturned == \A p \in Procs : procs[p].pc = "done" /\ procs[p].threw = ""

(***************************************************************************)
(* C26: when two processes each run set on the same path with their steps  *)
(* interleaved, the final content of the file is exactly the text written  *)
(* by the process that wrote last, never a mix of the two writes.          *)
(***************************************************************************)
C26_LastWriterWinsWholeFile ==
  BothReturned => MainFile(fs) = File(procs[writer].wrote)

\* Only the first process runs a call.
Alone == procs["p2"].pc = "off"

Ancestors(d) == {SubSeq(d, 1, n) : n \in 0..Len(d)}

\* The directories from the start directory of the call w up to the root
\* that hold a package.json.
Marked(w) == Ancestors(Resolve(w.cwd, w.start)) \cap w.markers

\* The closest of them.
Nearest(w) == CHOOSE d \in Marked(w) : \A e \in Marked(w) : Len(e) <= Len(d)

(***************************************************************************)
(* C25: started from any directory of a finite tree, getProjectRoot        *)
(* returns the closest directory from the start directory up to the root   *)
(* that contains package.json, raises an error if there is none, and       *)
(* always terminates.                                                      *)
(***************************************************************************)
C25_FindsNearestMarkedAncestor ==
  /\ [](walk.status = "returned" =>
          /\ Marked(walk) # {}
          /\ Resolve(walk.cwd, walk.result) = Nearest(walk))
  /\ [](walk.status = "threw" => Marked(walk) = {})
  /\ <>(walk.status \in {"returned", "threw"})

====
